---- MODULE Spec2Model ----
(***************************************************************************)
(* The alert lifecycle of src/API_gateway.py: AlertManager with its store  *)
(* (active_alerts, alert_history), the duplicate scan, resolution and the  *)
(* notification fan-out over the enabled channels.                         *)
(*                                                                         *)
(* Time is counted in ticks of 300 seconds, so the default                 *)
(* deduplication_window of 300 seconds is one tick and a UTC offset of one *)
(* hour is twelve.  A naive UTC timestamp (the text                        *)
(* datetime.utcnow().isoformat() writes) is held as the number of ticks    *)
(* its wall-clock reading stands for; reading it back with                 *)
(* datetime.fromisoformat(..).timestamp() takes that reading as LOCAL      *)
(* time, which shifts it by the host's UTC offset.                         *)
(***************************************************************************)
EXTENDS Integers, Sequences, FiniteSets, TLC

VARIABLES
    active_alerts,          \* self.active_alerts: the records in dict (insertion) order
    alert_history,          \* self.alert_history: the appended objects, as references (ids)
    notification_services,  \* self.notification_services: the enabled channels, in dict order
    now,                    \* the host clock, time.time()
    utc_offset,             \* local time minus UTC on the host
    calls,                  \* how many create_alert and resolve_alert calls were made
    last_op,                \* the most recent step: a clock tick, or a create_alert or
                            \* resolve_alert call with its arguments and outcome
    notify_log,             \* the channel calls that call made, in order
    pc,                     \* per thread: where it stands in the call it is running
    frame                   \* per thread: the locals of the call it is running

vars == <<active_alerts, alert_history, notification_services, now, utc_offset,
          calls, last_op, notify_log, pc, frame>>

\* The threads' state; calls that run one at a time leave it alone.
threads == <<pc, frame>>

\* What no operation of AlertManager writes.
host == <<notification_services, utc_offset>>

---------------------------------------------------------------------------
\* Bounds of the model.

MaxCalls == 3           \* create_alert and resolve_alert calls in one run
MaxTime == 2            \* last tick of the clock
NumThreads == 2         \* producers calling the manager at the same time
MaxIdleTime == 26       \* last tick of the clock of a long-lived manager

\* config["deduplication_window"]: the default, 300 seconds, in ticks.
DedupWindow == 1

\* config["auto_resolve_time"]: the default, 3600 seconds, in ticks.  No
\* method of AlertManager reads it.
AutoResolveTime == 12

---------------------------------------------------------------------------
\* AlertSeverity

INFO == "info"
WARNING == "warning"
ERROR == "error"
CRITICAL == "critical"

Severities == {INFO, WARNING, ERROR, CRITICAL}

---------------------------------------------------------------------------
\* Inputs.

NoneId == 0
AlertIds == 1..(MaxCalls + 1)

\* Hosts one hour west of UTC, on UTC, and one hour east of it.
UtcOffsets == {-12, 0, 12}

BaseSignature ==
    [type |-> "latency_spike", source |-> "checkout-api",
     severity |-> WARNING, environment |-> "prod"]

\* The base signature and the ones that differ from it in the severity;
\* "fatal" is no AlertSeverity.
Signatures ==
    {BaseSignature}
    \cup {[BaseSignature EXCEPT !.severity = s] : s \in {INFO, CRITICAL, "fatal"}}

\* message, details, related_entities as the caller passes them (details and
\* related_entities left out of the call).
FirstPayload == [message |-> "p99 above threshold", details |-> "None",
                 related_entities |-> "None"]

\* A later report of the same condition, with other words and data.
SecondPayload == [message |-> "p99 still high", details |-> "{region: eu}",
                  related_entities |-> "[db-1]"]

\* What the callers pass to create_alert.
Events == {sig @@ FirstPayload : sig \in Signatures}

ResolutionMessages == {"None", "rolled back deploy"}

ChannelNames == <<"email", "slack", "pagerduty">>

\* notification.<channel>.enabled, as the default configuration sets them.
Configs ==
    {[email |-> TRUE, slack |-> TRUE, pagerduty |-> FALSE]}

---------------------------------------------------------------------------
\* Helpers over the store.

Range(s) == {s[i] : i \in 1..Len(s)}

StoredIds(store) == {store[i].id : i \in 1..Len(store)}

\* The position of the record with this id (alert_id in self.active_alerts).
IndexOf(store, alert_id) == CHOOSE i \in 1..Len(store) : store[i].id = alert_id

\* A lookup that gives the default whether or not the key is there.
GetAlwaysDefault(d, key, default) == default

\* dict.get(key, default)
Get(d, key, default) == IF key \in DOMAIN d THEN d[key] ELSE default

\* str(uuid.uuid4()): an identifier that is not in use.
Uuid4(used) == CHOOSE i \in AlertIds : i \notin used /\
                   \A j \in AlertIds : j \notin used => i <= j

\* datetime.utcnow().isoformat(): the UTC wall-clock reading at clock value t.
UtcNowIso(t) == t

\* datetime.fromisoformat(text).timestamp(): a naive reading is taken as local
\* time, so the epoch value is the reading less the host's UTC offset.
FromIsoTimestamp(text, offset) == text - offset

SignatureOf(alert) ==
    [type |-> alert.type, source |-> alert.source,
     severity |-> alert.severity, environment |-> alert.environment]

---------------------------------------------------------------------------
\* _initialize_notification_services

RECURSIVE EnabledFrom(_, _)
EnabledFrom(names, config) ==
    IF names = <<>> THEN <<>>
    ELSE IF config[Head(names)]
         THEN <<Head(names)>> \o EnabledFrom(Tail(names), config)
         ELSE EnabledFrom(Tail(names), config)

InitializeNotificationServices(config) == EnabledFrom(ChannelNames, config)

---------------------------------------------------------------------------
\* create_alert, lines 88-103: the alert object, without "count".

NewAlert(alert_id, ev, t) ==
    [id |-> alert_id,
     type |-> ev.type,
     source |-> ev.source,
     severity |-> ev.severity,
     message |-> ev.message,
     details |-> IF ev.details = "None" THEN "{}" ELSE ev.details,
     environment |-> ev.environment,
     related_entities |-> IF ev.related_entities = "None" THEN "[]"
                          ELSE ev.related_entities,
     created_at |-> UtcNowIso(t),
     updated_at |-> UtcNowIso(t),
     status |-> "active"]

---------------------------------------------------------------------------
\* _check_for_duplicate: the first record, in store order, that is active, whose
\* created_at read back as an epoch value is not more than the window before
\* current_time, and whose four signature fields equal the candidate's.  The
\* result is the record (here its id), or None.

\* A scan that does not skip the resolved records.
IsDuplicateOfAnyStatus(existing_alert, alert, current_time) ==
    /\ ~(current_time - FromIsoTimestamp(existing_alert.created_at, utc_offset)
            > DedupWindow)
    /\ existing_alert.type = alert.type
    /\ existing_alert.source = alert.source
    /\ existing_alert.severity = alert.severity
    /\ existing_alert.environment = alert.environment

IsDuplicateOf(existing_alert, alert, current_time) ==
    /\ existing_alert.status = "active"
    /\ ~(current_time - FromIsoTimestamp(existing_alert.created_at, utc_offset)
            > DedupWindow)
    /\ existing_alert.type = alert.type
    /\ existing_alert.source = alert.source
    /\ existing_alert.severity = alert.severity
    /\ existing_alert.environment = alert.environment

RECURSIVE ScanFrom(_, _, _, _)
ScanFrom(store, i, alert, current_time) ==
    IF i > Len(store) THEN NoneId
    ELSE IF IsDuplicateOf(store[i], alert, current_time) THEN store[i].id
    ELSE ScanFrom(store, i + 1, alert, current_time)

CheckForDuplicate(store, alert, current_time) ==
    ScanFrom(store, 1, alert, current_time)

---------------------------------------------------------------------------
\* alert[key] = value

SetKey(d, key, value) ==
    [k \in DOMAIN d \cup {key} |-> IF k = key THEN value ELSE d[k]]

\* An _update_alert that stamps created_at along with updated_at.
UpdateAlertRestamping(store, alert_id, update_data, t) ==
    IF alert_id \notin StoredIds(store)
    THEN [store |-> store, error |-> "ValueError"]
    ELSE LET i == IndexOf(store, alert_id)
             written == [k \in DOMAIN store[i] \cup DOMAIN update_data |->
                            IF k \in DOMAIN update_data THEN update_data[k]
                            ELSE store[i][k]]
             stamped == SetKey(SetKey(written, "updated_at", UtcNowIso(t)),
                               "created_at", UtcNowIso(t))
         IN  [store |-> [store EXCEPT ![i] = stamped], error |-> "none"]

\* _update_alert: every key of update_data is written into the record, then
\* updated_at is stamped with the clock.  An unknown id raises ValueError.
UpdateAlert(store, alert_id, update_data, t) ==
    IF alert_id \notin StoredIds(store)
    THEN [store |-> store, error |-> "ValueError"]
    ELSE LET i == IndexOf(store, alert_id)
             written == [k \in DOMAIN store[i] \cup DOMAIN update_data |->
                            IF k \in DOMAIN update_data THEN update_data[k]
                            ELSE store[i][k]]
             stamped == SetKey(written, "updated_at", UtcNowIso(t))
         IN  [store |-> [store EXCEPT ![i] = stamped], error |-> "none"]

\* A resolve_alert that flips the status: resolving a resolved alert makes it
\* active again.
ResolveRecordToggling(alert, t, resolution_message) ==
    SetKey(SetKey(SetKey(alert, "status",
                         IF alert.status = "resolved" THEN "active" ELSE "resolved"),
                  "resolved_at", UtcNowIso(t)),
           "resolution_message", resolution_message)

\* A resolve_alert that leaves the caller's resolution_message out.
ResolveRecordDroppingMessage(alert, t, resolution_message) ==
    SetKey(SetKey(alert, "status", "resolved"), "resolved_at", UtcNowIso(t))

\* resolve_alert, lines 173-176: the three writes into the record.
ResolveRecord(alert, t, resolution_message) ==
    SetKey(SetKey(SetKey(alert, "status", "resolved"),
                  "resolved_at", UtcNowIso(t)),
           "resolution_message", resolution_message)

---------------------------------------------------------------------------
\* The loop of _send_notifications and _send_resolution_notification: each
\* service is called inside try/except Exception, so a raising channel is
\* reported and the loop goes on.  failing: the channels whose call raises.

\* A loop with one try around all of it: the first raising channel ends the
\* loop, and the error is reported and swallowed.
RECURSIVE SendEachOneTry(_, _, _, _)
SendEachOneTry(services, method, alert, failing) ==
    IF services = <<>> THEN [calls |-> <<>>, raised |-> FALSE]
    ELSE LET service_name == Head(services)
             call == [channel |-> service_name, method |-> method,
                      alert_id |-> alert.id, ok |-> service_name \notin failing]
             rest == SendEachOneTry(Tail(services), method, alert, failing)
         IN  IF call.ok
             THEN [calls |-> <<call>> \o rest.calls, raised |-> FALSE]
             ELSE [calls |-> <<call>>, raised |-> FALSE]

\* A loop with no try: the first raising channel's error leaves the loop and
\* reaches the caller.
RECURSIVE SendEachNoTry(_, _, _, _)
SendEachNoTry(services, method, alert, failing) ==
    IF services = <<>> THEN [calls |-> <<>>, raised |-> FALSE]
    ELSE LET service_name == Head(services)
             call == [channel |-> service_name, method |-> method,
                      alert_id |-> alert.id, ok |-> service_name \notin failing]
             rest == SendEachNoTry(Tail(services), method, alert, failing)
         IN  IF call.ok
             THEN [calls |-> <<call>> \o rest.calls, raised |-> rest.raised]
             ELSE [calls |-> <<call>>, raised |-> TRUE]

RECURSIVE SendEach(_, _, _, _)
SendEach(services, method, alert, failing) ==
    IF services = <<>> THEN [calls |-> <<>>, raised |-> FALSE]
    ELSE LET service_name == Head(services)
             call == [channel |-> service_name, method |-> method,
                      alert_id |-> alert.id, ok |-> service_name \notin failing]
             rest == SendEach(Tail(services), method, alert, failing)
         IN  [calls |-> <<call>> \o rest.calls, raised |-> rest.raised]

\* _send_notifications without the severity test.
SendNotificationsUngated(alert, services, failing) ==
    SendEach(services, "send_alert", alert, failing)

\* _send_notifications
SendNotifications(alert, services, failing) ==
    IF alert.severity = INFO
    THEN [calls |-> <<>>, raised |-> FALSE]
    ELSE SendEach(services, "send_alert", alert, failing)

\* _send_resolution_notification
SendResolutionNotification(alert, services, failing) ==
    IF alert.severity \notin {ERROR, CRITICAL}
    THEN [calls |-> <<>>, raised |-> FALSE]
    ELSE SendEach(services, "send_resolution", alert, failing)

\* The truth value Python gives a filter argument in "if environment and ..":
\* None and the empty string are false, every other string is true.
Truthy(x) == x # "None" /\ x # ""

\* A get_active_alerts that passes an active alert when any one of the filters
\* given matches it.
RECURSIVE FilterFromEither(_, _, _, _, _)
FilterFromEither(store, i, environment, severity, source) ==
    IF i > Len(store) THEN <<>>
    ELSE LET alert == store[i]
             rest == FilterFromEither(store, i + 1, environment, severity, source)
         IN  IF alert.status # "active" THEN rest
             ELSE IF \/ ~Truthy(environment) /\ ~Truthy(severity) /\ ~Truthy(source)
                     \/ Truthy(environment) /\ alert.environment = environment
                     \/ Truthy(severity) /\ alert.severity = severity
                     \/ Truthy(source) /\ alert.source = source
                  THEN <<alert.id>> \o rest
                  ELSE rest

\* get_active_alerts: the ids of the records that pass the filters, in store
\* order.  A filter that is None or empty is not applied.
RECURSIVE FilterFrom(_, _, _, _, _)
FilterFrom(store, i, environment, severity, source) ==
    IF i > Len(store) THEN <<>>
    ELSE LET alert == store[i]
             rest == FilterFrom(store, i + 1, environment, severity, source)
         IN  IF alert.status # "active" THEN rest
             ELSE IF Truthy(environment) /\ alert.environment # environment THEN rest
             ELSE IF Truthy(severity) /\ alert.severity # severity THEN rest
             ELSE IF Truthy(source) /\ alert.source # source THEN rest
             ELSE <<alert.id>> \o rest

GetActive(store, environment, severity, source) ==
    FilterFrom(store, 1, environment, severity, source)

---------------------------------------------------------------------------
\* Threads.

Threads == 1..NumThreads

NoFrame == [op |-> "none"]

\* The ids of the stored records and of the alerts that calls under way built.
IdsInUse ==
    StoredIds(active_alerts)
    \cup {frame[t].alert.id : t \in {u \in Threads : frame[u].op = "create_alert"}}

---------------------------------------------------------------------------
\* The state after AlertManager.__init__, on a host with some UTC offset.

Init ==
    /\ active_alerts = <<>>
    /\ alert_history = <<>>
    /\ \E config \in Configs :
          notification_services = InitializeNotificationServices(config)
    /\ now = 0
    /\ utc_offset \in UtcOffsets
    /\ calls = 0
    /\ last_op = [op |-> "init"]
    /\ notify_log = <<>>
    /\ pc = [t \in Threads |-> "idle"]
    /\ frame = [t \in Threads |-> NoFrame]

\* The host clock advances.
Tick ==
    /\ now < MaxTime
    /\ now' = now + 1
    /\ last_op' = [op |-> "clock"]
    /\ notify_log' = <<>>
    /\ UNCHANGED <<active_alerts, alert_history, calls, host, threads>>

\* The channels whose send raises during one call: any of the enabled ones.
FailureSets == SUBSET Range(notification_services)

\* A create_alert that sends the notifications before it returns the
\* duplicate as well.
CreateAlertNotifyingMerge(ev) ==
    LET alert_id == Uuid4(IdsInUse)
        alert == NewAlert(alert_id, ev, now)
        duplicate_id == CheckForDuplicate(active_alerts, alert, now)
        duplicate_alert == active_alerts[IndexOf(active_alerts, duplicate_id)]
        updated == UpdateAlert(active_alerts, duplicate_id,
                       [count |-> Get(duplicate_alert, "count", 1) + 1,
                        updated_at |-> alert.updated_at], now)
        stored == SetKey(alert, "count", 1)
        merged == duplicate_id # NoneId
        notified == IF merged THEN duplicate_alert ELSE stored
    IN  /\ calls < MaxCalls
        /\ calls' = calls + 1
        /\ UNCHANGED <<now, host, threads>>
        /\ active_alerts' = IF merged THEN updated.store
                            ELSE Append(active_alerts, stored)
        /\ alert_history' = IF merged THEN alert_history
                            ELSE Append(alert_history, alert_id)
        /\ \E failing \in FailureSets :
              LET sent == SendNotifications(notified, notification_services, failing)
              IN  /\ notify_log' = sent.calls
                  /\ last_op' = [op |-> "create_alert", event |-> ev,
                                 ret |-> notified.id, error |-> "none"]

\* create_alert(ev...), run from call to return.
CreateAlert(ev) ==
    LET alert_id == Uuid4(IdsInUse)
        alert == NewAlert(alert_id, ev, now)
        duplicate_id == CheckForDuplicate(active_alerts, alert, now)
        \* lines 107-112: the duplicate is updated and returned
        duplicate_alert == active_alerts[IndexOf(active_alerts, duplicate_id)]
        updated == UpdateAlert(active_alerts, duplicate_id,
                       [count |-> Get(duplicate_alert, "count", 1) + 1,
                        updated_at |-> alert.updated_at], now)
        \* lines 115-124: the new alert is stored and notified
        stored == SetKey(alert, "count", 1)
    IN  /\ calls < MaxCalls
        /\ calls' = calls + 1
        /\ UNCHANGED <<now, host, threads>>
        /\ IF duplicate_id # NoneId
             THEN /\ active_alerts' = updated.store
                  /\ last_op' = [op |-> "create_alert", event |-> ev,
                                 ret |-> IF updated.error = "none"
                                         THEN duplicate_id ELSE NoneId,
                                 error |-> updated.error]
                  /\ notify_log' = <<>>
                  /\ UNCHANGED alert_history
             ELSE /\ active_alerts' = Append(active_alerts, stored)
                  /\ alert_history' = Append(alert_history, alert_id)
                  /\ \E failing \in FailureSets :
                        LET sent == SendNotifications(stored, notification_services,
                                                      failing)
                        IN  /\ notify_log' = sent.calls
                            /\ last_op' =
                                 [op |-> "create_alert", event |-> ev,
                                  ret |-> IF sent.raised THEN NoneId ELSE alert_id,
                                  error |-> IF sent.raised THEN "Exception"
                                            ELSE "none"]

\* A resolve_alert that takes an unknown id for a new alert: it stores a
\* resolved record under that id instead of raising.
ResolveAlertUpserting(alert_id, resolution_message) ==
    LET known == alert_id \in StoredIds(active_alerts)
        i == IndexOf(active_alerts, alert_id)
        blank == [id |-> alert_id, type |-> "unknown", source |-> "unknown",
                  severity |-> INFO, message |-> "", details |-> "{}",
                  environment |-> "unknown", related_entities |-> "[]",
                  created_at |-> UtcNowIso(now), updated_at |-> UtcNowIso(now),
                  status |-> "active", count |-> 1]
        alert == ResolveRecord(IF known THEN active_alerts[i] ELSE blank,
                               now, resolution_message)
    IN  /\ calls < MaxCalls
        /\ calls' = calls + 1
        /\ UNCHANGED <<alert_history, now, host, threads>>
        /\ active_alerts' = IF known THEN [active_alerts EXCEPT ![i] = alert]
                            ELSE Append(active_alerts, alert)
        /\ \E failing \in FailureSets :
              LET sent == SendResolutionNotification(
                              alert, notification_services, failing)
              IN  /\ notify_log' = sent.calls
                  /\ last_op' =
                       [op |-> "resolve_alert", alert_id |-> alert_id,
                        resolution_message |-> resolution_message,
                        ret |-> IF sent.raised THEN NoneId ELSE alert_id,
                        error |-> IF sent.raised THEN "Exception" ELSE "none"]

\* resolve_alert(alert_id, resolution_message), run from call to return.
ResolveAlert(alert_id, resolution_message) ==
    LET i == IndexOf(active_alerts, alert_id)
        alert == ResolveRecord(active_alerts[i], now, resolution_message)
    IN  /\ calls < MaxCalls
        /\ calls' = calls + 1
        /\ UNCHANGED <<alert_history, now, host, threads>>
        /\ IF alert_id \notin StoredIds(active_alerts)
             THEN /\ last_op' = [op |-> "resolve_alert", alert_id |-> alert_id,
                                 resolution_message |-> resolution_message,
                                 ret |-> NoneId, error |-> "ValueError"]
                  /\ notify_log' = <<>>
                  /\ UNCHANGED active_alerts
             ELSE /\ active_alerts' = [active_alerts EXCEPT ![i] = alert]
                  /\ \E failing \in FailureSets :
                        LET sent == SendResolutionNotification(
                                        alert, notification_services, failing)
                        IN  /\ notify_log' = sent.calls
                            /\ last_op' =
                                 [op |-> "resolve_alert", alert_id |-> alert_id,
                                  resolution_message |-> resolution_message,
                                  ret |-> IF sent.raised THEN NoneId ELSE alert_id,
                                  error |-> IF sent.raised THEN "Exception"
                                            ELSE "none"]

\* get_active_alerts(environment, severity, source): a read; what it returns
\* is GetActive of the store as it stands.
GetActiveAlerts(environment, severity, source) ==
    /\ GetActive(active_alerts, environment, severity, source) \in Seq(AlertIds)
    /\ UNCHANGED vars

\* self.active_alerts.get(alert_id)
GetById(store, alert_id) ==
    IF alert_id \in StoredIds(store) THEN alert_id ELSE NoneId

\* get_alert_by_id(alert_id): a read; what it returns is GetById of the store
\* as it stands.
GetAlertById(alert_id) ==
    /\ GetById(active_alerts, alert_id) \in AlertIds \cup {NoneId}
    /\ UNCHANGED vars

\* The ids a caller passes: every stored one, and one that is not stored.
KnownAndUnknownIds == StoredIds(active_alerts) \cup {Uuid4(IdsInUse)}

\* The ids a caller looks up: the one stored last, and one that is not stored.
LookupIds ==
    {Uuid4(IdsInUse)}
    \cup {active_alerts[i].id : i \in {Len(active_alerts)} \ {0}}

\* The filters a caller passes to get_active_alerts (None: not passed).
Filters ==
    {[environment |-> "None", severity |-> "None", source |-> "None"],
     [environment |-> "", severity |-> "None", source |-> "None"],
     [environment |-> "prod", severity |-> CRITICAL, source |-> "checkout-api"],
     [environment |-> "prod", severity |-> WARNING, source |-> "auth-api"]}

Next ==
    \/ Tick
    \/ \E ev \in Events : CreateAlert(ev)
    \/ \E alert_id \in KnownAndUnknownIds, m \in ResolutionMessages :
          ResolveAlert(alert_id, m)
    \/ \E f \in Filters : GetActiveAlerts(f.environment, f.severity, f.source)
    \/ \E alert_id \in LookupIds : GetAlertById(alert_id)

Spec == Init /\ [][Next]_vars

---------------------------------------------------------------------------
\* A manager that lives long: one condition is reported again and again, with
\* changing payloads, and between the calls the manager may sit idle for longer
\* than auto_resolve_time.

\* The length of an idle period: 3900 seconds.
IdlePeriod == AutoResolveTime + 1

RepeatEvents == {BaseSignature @@ FirstPayload, BaseSignature @@ SecondPayload}

\* A clock tick with a sweep that resolves the active alerts older than
\* auto_resolve_time.
LongTickSweeping ==
    /\ now + IdlePeriod <= MaxIdleTime
    /\ now' = now + IdlePeriod
    /\ active_alerts' =
          [i \in 1..Len(active_alerts) |->
              IF /\ active_alerts[i].status = "active"
                 /\ now + IdlePeriod - active_alerts[i].created_at > AutoResolveTime
              THEN ResolveRecord(active_alerts[i], now + IdlePeriod, "None")
              ELSE active_alerts[i]]
    /\ last_op' = [op |-> "clock"]
    /\ notify_log' = <<>>
    /\ UNCHANGED <<alert_history, calls, host, threads>>

\* The host clock advances by an idle period; nothing in AlertManager runs on
\* a timer.
LongTick ==
    /\ now + IdlePeriod <= MaxIdleTime
    /\ now' = now + IdlePeriod
    /\ last_op' = [op |-> "clock"]
    /\ notify_log' = <<>>
    /\ UNCHANGED <<active_alerts, alert_history, calls, host, threads>>

NextRepeat ==
    \/ LongTick
    \/ \E ev \in RepeatEvents : CreateAlert(ev)
    \/ \E alert_id \in KnownAndUnknownIds, m \in ResolutionMessages :
          ResolveAlert(alert_id, m)
    \/ \E f \in Filters : GetActiveAlerts(f.environment, f.severity, f.source)
    \/ \E alert_id \in LookupIds : GetAlertById(alert_id)

SpecRepeat == Init /\ [][NextRepeat]_vars

---------------------------------------------------------------------------
\* Producers on several threads.  The manager takes no lock, so a call is a
\* sequence of steps, and the steps of the calls that are under way interleave.
\* One step is one access to the shared store, history or channels.

\* The stored record with this id.
Stored(alert_id) == active_alerts[IndexOf(active_alerts, alert_id)]

\* self.alert_history[i]: the entry is the object that was appended, the very
\* dict the store holds under its id, so it reads as that record reads now.
HistoryEntry(history, store, i) == store[IndexOf(store, history[i])]

\* What the threads pass to create_alert.
ThreadEvents == {BaseSignature @@ FirstPayload}

Goto(self, label) == pc' = [pc EXCEPT ![self] = label]

Return(self) ==
    /\ pc' = [pc EXCEPT ![self] = "idle"]
    /\ frame' = [frame EXCEPT ![self] = NoFrame]

\* create_alert is called: lines 88-103 build the alert object.
CreateCall(self, ev) ==
    /\ pc[self] = "idle"
    /\ calls < MaxCalls
    /\ calls' = calls + 1
    /\ frame' = [frame EXCEPT ![self] =
                    [op |-> "create_alert", event |-> ev,
                     alert |-> NewAlert(Uuid4(IdsInUse), ev, now),
                     current_time |-> 0, duplicate_id |-> NoneId, count |-> 0]]
    /\ Goto(self, "check")
    /\ UNCHANGED <<active_alerts, alert_history, now, host, last_op, notify_log>>

\* line 106: the scan of the store.
CheckStep(self) ==
    /\ pc[self] = "check"
    /\ LET duplicate_id == CheckForDuplicate(active_alerts, frame[self].alert, now)
       IN  /\ frame' = [frame EXCEPT ![self].duplicate_id = duplicate_id,
                                     ![self].current_time = now]
           /\ Goto(self, IF duplicate_id # NoneId THEN "read_count" ELSE "store")
    /\ UNCHANGED <<active_alerts, alert_history, now, host, calls, last_op, notify_log>>

\* line 110: the duplicate's count is read and one is added.
ReadCount(self) ==
    /\ pc[self] = "read_count"
    /\ frame' = [frame EXCEPT ![self].count =
                    Get(Stored(frame[self].duplicate_id), "count", 1) + 1]
    /\ Goto(self, "update")
    /\ UNCHANGED <<active_alerts, alert_history, now, host, calls, last_op, notify_log>>

\* lines 109-112: _update_alert writes the record; the duplicate is returned.
UpdateStep(self) ==
    /\ pc[self] = "update"
    /\ LET updated == UpdateAlert(active_alerts, frame[self].duplicate_id,
                          [count |-> frame[self].count,
                           updated_at |-> frame[self].alert.updated_at], now)
       IN  /\ active_alerts' = updated.store
           /\ last_op' = [op |-> "create_alert", event |-> frame[self].event,
                          ret |-> IF updated.error = "none"
                                  THEN frame[self].duplicate_id ELSE NoneId,
                          error |-> updated.error]
    /\ notify_log' = <<>>
    /\ Return(self)
    /\ UNCHANGED <<alert_history, now, host, calls>>

\* lines 115-118: count is set and the alert is put into the store.
StoreStep(self) ==
    /\ pc[self] = "store"
    /\ active_alerts' = Append(active_alerts, SetKey(frame[self].alert, "count", 1))
    /\ Goto(self, "history")
    /\ UNCHANGED <<alert_history, now, host, calls, last_op, notify_log, frame>>

\* line 119: the alert is appended to the history.
HistoryStep(self) ==
    /\ pc[self] = "history"
    /\ alert_history' = Append(alert_history, frame[self].alert.id)
    /\ Goto(self, "notify")
    /\ UNCHANGED <<active_alerts, now, host, calls, last_op, notify_log, frame>>

\* lines 122-124: the channels are called and the alert is returned.
NotifyStep(self, failing) ==
    /\ pc[self] = "notify"
    /\ LET sent == SendNotifications(Stored(frame[self].alert.id),
                                     notification_services, failing)
       IN  /\ notify_log' = sent.calls
           /\ last_op' = [op |-> "create_alert", event |-> frame[self].event,
                          ret |-> IF sent.raised THEN NoneId
                                  ELSE frame[self].alert.id,
                          error |-> IF sent.raised THEN "Exception" ELSE "none"]
    /\ Return(self)
    /\ UNCHANGED <<active_alerts, alert_history, now, host, calls>>

\* resolve_alert is called: lines 168-171 look the id up.
ResolveCall(self, alert_id, resolution_message) ==
    /\ pc[self] = "idle"
    /\ calls < MaxCalls
    /\ calls' = calls + 1
    /\ IF alert_id \notin StoredIds(active_alerts)
         THEN /\ last_op' = [op |-> "resolve_alert", alert_id |-> alert_id,
                             resolution_message |-> resolution_message,
                             ret |-> NoneId, error |-> "ValueError"]
              /\ notify_log' = <<>>
              /\ UNCHANGED threads
         ELSE /\ frame' = [frame EXCEPT ![self] =
                              [op |-> "resolve_alert", alert_id |-> alert_id,
                               resolution_message |-> resolution_message]]
              /\ Goto(self, "set_status")
              /\ UNCHANGED <<last_op, notify_log>>
    /\ UNCHANGED <<active_alerts, alert_history, now, host>>

\* line 174
SetStatus(self) ==
    /\ pc[self] = "set_status"
    /\ active_alerts' = [active_alerts EXCEPT
            ![IndexOf(active_alerts, frame[self].alert_id)] =
                SetKey(@, "status", "resolved")]
    /\ Goto(self, "set_resolved_at")
    /\ UNCHANGED <<alert_history, now, host, calls, last_op, notify_log, frame>>

\* lines 175-176
SetResolvedAt(self) ==
    /\ pc[self] = "set_resolved_at"
    /\ active_alerts' = [active_alerts EXCEPT
            ![IndexOf(active_alerts, frame[self].alert_id)] =
                SetKey(SetKey(@, "resolved_at", UtcNowIso(now)),
                       "resolution_message", frame[self].resolution_message)]
    /\ Goto(self, "notify_resolved")
    /\ UNCHANGED <<alert_history, now, host, calls, last_op, notify_log, frame>>

\* lines 179-181: the channels are called and the alert is returned.
NotifyResolved(self, failing) ==
    /\ pc[self] = "notify_resolved"
    /\ LET sent == SendResolutionNotification(Stored(frame[self].alert_id),
                                              notification_services, failing)
       IN  /\ notify_log' = sent.calls
           /\ last_op' = [op |-> "resolve_alert", alert_id |-> frame[self].alert_id,
                          resolution_message |-> frame[self].resolution_message,
                          ret |-> IF sent.raised THEN NoneId
                                  ELSE frame[self].alert_id,
                          error |-> IF sent.raised THEN "Exception" ELSE "none"]
    /\ Return(self)
    /\ UNCHANGED <<active_alerts, alert_history, now, host, calls>>

\* The clock advances while calls are under way.
ThreadTick ==
    /\ now < MaxTime
    /\ now' = now + 1
    /\ UNCHANGED <<active_alerts, alert_history, calls, host, last_op, notify_log,
                   threads>>

ThreadNext ==
    \/ ThreadTick
    \/ \E self \in Threads :
          \/ \E ev \in ThreadEvents : CreateCall(self, ev)
          \/ CheckStep(self)
          \/ ReadCount(self)
          \/ UpdateStep(self)
          \/ StoreStep(self)
          \/ HistoryStep(self)
          \/ \E failing \in FailureSets : NotifyStep(self, failing)
          \/ \E alert_id \in KnownAndUnknownIds, m \in ResolutionMessages :
                ResolveCall(self, alert_id, m)
          \/ SetStatus(self)
          \/ SetResolvedAt(self)
          \/ \E failing \in FailureSets : NotifyResolved(self, failing)

SpecThreads == Init /\ [][ThreadNext]_vars

---------------------------------------------------------------------------
\* Vocabulary of the properties.

\* The time that really passed since the record was created: created_at is
\* the UTC reading of the clock at creation.
RealAge(alert, t) == t - alert.created_at

\* Active and created no more than the deduplication window before t.
FreshActive(alert, t) ==
    alert.status = "active" /\ RealAge(alert, t) <= DedupWindow

\* The positions of the stored records with the signature of ev.
Matching(ev) ==
    {i \in 1..Len(active_alerts) : SignatureOf(active_alerts[i]) = SignatureOf(ev)}

SomeChannelFailed == \E k \in 1..Len(notify_log) : ~notify_log[k].ok

---------------------------------------------------------------------------
\* C1 (deduplication merge): a create_alert whose signature equals that of a
\* stored alert that is active and was created within the deduplication
\* window inserts no record, returns that record and raises its count by one.
C1_DedupMerge ==
    [][last_op'.op = "create_alert" =>
        LET fresh == {i \in Matching(last_op'.event) :
                         FreshActive(active_alerts[i], now)}
        IN  fresh # {} =>
              /\ Len(active_alerts') = Len(active_alerts)
              /\ \E i \in fresh :
                    /\ last_op'.ret = active_alerts[i].id
                    /\ active_alerts'[i].count = active_alerts[i].count + 1]_vars

\* C2 (invariant I2): no two stored alerts of one signature are both active
\* and both created within the deduplication window of now.
C2_OneFreshActivePerSignature ==
    \A i, j \in 1..Len(active_alerts) :
        (/\ i # j
         /\ SignatureOf(active_alerts[i]) = SignatureOf(active_alerts[j])
         /\ FreshActive(active_alerts[i], now))
        => ~FreshActive(active_alerts[j], now)

\* C3 (atomic check-then-act): a thread that is about to store its alert saw
\* no duplicate, and the store still holds none for it; a thread that is about
\* to merge into a record still finds that record as the duplicate.  So no two
\* calls with one signature both see "no duplicate" and both insert, and on a
\* host on UTC invariant I2 holds in every state the interleavings reach.
C3_CheckThenActAtomic ==
    /\ \A t \in Threads :
          /\ pc[t] = "store" =>
                CheckForDuplicate(active_alerts, frame[t].alert,
                                  frame[t].current_time) = NoneId
          /\ pc[t] \in {"read_count", "update"} =>
                CheckForDuplicate(active_alerts, frame[t].alert,
                                  frame[t].current_time) = frame[t].duplicate_id
    /\ utc_offset = 0 =>
          \A i, j \in 1..Len(active_alerts) :
              (/\ i # j
               /\ SignatureOf(active_alerts[i]) = SignatureOf(active_alerts[j])
               /\ FreshActive(active_alerts[i], now))
              => ~FreshActive(active_alerts[j], now)

\* C4 (resolving twice is rejected): resolve_alert on an alert that is already
\* resolved fails with InvalidState, leaves the record as it was and sends no
\* resolution notification.
C4_ResolveResolvedRejected ==
    [][(/\ last_op'.op = "resolve_alert"
        /\ last_op'.alert_id \in StoredIds(active_alerts)
        /\ Stored(last_op'.alert_id).status = "resolved")
       => (/\ last_op'.error = "InvalidState"
           /\ active_alerts' = active_alerts
           /\ notify_log' = <<>>)]_vars

\* C5 (monotonic status): a record that is resolved stays in the store and
\* stays resolved, whatever step is taken.
C5_StatusMonotonic ==
    [][\A i \in 1..Len(active_alerts) :
          active_alerts[i].status = "resolved" =>
            /\ i <= Len(active_alerts')
            /\ active_alerts'[i].id = active_alerts[i].id
            /\ active_alerts'[i].status = "resolved"]_vars

\* A resolved alert, and the last call was a create_alert with its signature.
C5_Witness ==
    /\ last_op.op = "create_alert"
    /\ \E i \in Matching(last_op.event) :
          /\ active_alerts[i].status = "resolved"
          /\ active_alerts[i].id # last_op.ret

\* C6 (window expiry): a create_alert whose signature is that of an active
\* stored alert created more than the deduplication window ago (and of none
\* created within it) appends a new active record with a new id and count 1,
\* and leaves every older record as it was.
C6_WindowExpiry ==
    [][last_op'.op = "create_alert" =>
        LET active == {i \in Matching(last_op'.event) :
                          active_alerts[i].status = "active"}
        IN  (/\ active # {}
             /\ \A i \in active : RealAge(active_alerts[i], now) > DedupWindow)
            => (/\ Len(active_alerts') = Len(active_alerts) + 1
                /\ \A i \in 1..Len(active_alerts) :
                      active_alerts'[i] = active_alerts[i]
                /\ LET new == active_alerts'[Len(active_alerts')]
                   IN  /\ new.id \notin StoredIds(active_alerts)
                       /\ new.id = last_op'.ret
                       /\ new.status = "active"
                       /\ new.count = 1)]_vars

\* C7 (fault isolation): when a channel's send raised during a call, every
\* enabled channel was still called, with the same method, for the same alert.
C7_FaultIsolation ==
    \A k \in 1..Len(notify_log) :
        ~notify_log[k].ok =>
            \A service \in Range(notification_services) :
                \E m \in 1..Len(notify_log) :
                    /\ notify_log[m].channel = service
                    /\ notify_log[m].method = notify_log[k].method
                    /\ notify_log[m].alert_id = notify_log[k].alert_id

\* A resolution whose first channel raised, and a later channel was called.
C7_Witness ==
    /\ last_op.op = "resolve_alert"
    /\ Len(notify_log) >= 2
    /\ ~notify_log[1].ok
    /\ notify_log[2].method = "send_resolution"

\* C8 (channel failures never reach the caller): whichever channels raised,
\* create_alert returned the new record, stored and active, and resolve_alert
\* returned the alert, resolved; neither call ended in an error.
C8_ChannelFailureNotRaised ==
    SomeChannelFailed =>
        /\ last_op.error = "none"
        /\ last_op.ret \in StoredIds(active_alerts)
        /\ last_op.op = "create_alert" =>
              /\ Stored(last_op.ret).status = "active"
              /\ Stored(last_op.ret).count = 1
              /\ SignatureOf(Stored(last_op.ret)) = SignatureOf(last_op.event)
        /\ last_op.op = "resolve_alert" =>
              /\ last_op.ret = last_op.alert_id
              /\ Stored(last_op.ret).status = "resolved"

\* A create_alert during which every enabled channel raised.
C8_Witness ==
    /\ last_op.op = "create_alert"
    /\ Len(notify_log) = Len(notification_services)
    /\ Len(notify_log) >= 2
    /\ \A k \in 1..Len(notify_log) : ~notify_log[k].ok

\* C9 (severity gating): no send_alert is made for an alert of severity info,
\* and no send_resolution for an alert whose severity is not error or critical.
C9_SeverityGating ==
    /\ (last_op.op = "create_alert" /\ last_op.event.severity = INFO)
          => notify_log = <<>>
    /\ \A k \in 1..Len(notify_log) :
          /\ notify_log[k].method = "send_alert"
                => Stored(notify_log[k].alert_id).severity # INFO
          /\ notify_log[k].method = "send_resolution"
                => Stored(notify_log[k].alert_id).severity \in {ERROR, CRITICAL}

\* An info alert was created, and the last call resolved it.
C9_Witness ==
    /\ last_op.op = "resolve_alert"
    /\ last_op.error = "none"
    /\ Stored(last_op.alert_id).severity = INFO
    /\ notification_services # <<>>
    /\ notify_log = <<>>

\* C10 (malformed severity): a create_alert whose severity is none of info,
\* warning, error, critical fails with InvalidArgument and stores nothing,
\* appends nothing to the history and sends nothing.
C10_MalformedSeverityRejected ==
    /\ (last_op.op = "create_alert" /\ last_op.event.severity \notin Severities)
          => (last_op.error = "InvalidArgument" /\ notify_log = <<>>)
    /\ \A i \in 1..Len(active_alerts) : active_alerts[i].severity \in Severities
    /\ \A i \in 1..Len(alert_history) :
          Stored(alert_history[i]).severity \in Severities

\* C11 (unknown id on resolve): resolve_alert with an id that is not in the
\* store fails with the not-found error (ValueError "Alert with ID .. not
\* found"), changes no record and no history entry, and calls no channel.
C11_UnknownIdNotFound ==
    [][(/\ last_op'.op = "resolve_alert"
        /\ last_op'.alert_id \notin StoredIds(active_alerts))
       => (/\ last_op'.error = "ValueError"
           /\ last_op'.ret = NoneId
           /\ active_alerts' = active_alerts
           /\ alert_history' = alert_history
           /\ notify_log' = <<>>)]_vars

\* The last call was a resolve_alert with an unknown id, made while the store
\* held a critical alert that is still active.
C11_Witness ==
    /\ last_op.op = "resolve_alert"
    /\ last_op.alert_id \notin StoredIds(active_alerts)
    /\ last_op.error = "ValueError"
    /\ \E i \in 1..Len(active_alerts) :
          active_alerts[i].severity = CRITICAL /\ active_alerts[i].status = "active"

\* C12 (merges do not re-notify): a create_alert that is merged into a stored
\* record calls no channel; every send_alert is made by a create_alert that
\* inserted a record, and is made for that record.
C12_MergeSendsNothing ==
    [][/\ (/\ last_op'.op = "create_alert"
            /\ Len(active_alerts') = Len(active_alerts))
           => notify_log' = <<>>
       /\ \A k \in 1..Len(notify_log') :
             notify_log'[k].method = "send_alert" =>
                /\ last_op'.op = "create_alert"
                /\ Len(active_alerts') = Len(active_alerts) + 1
                /\ notify_log'[k].alert_id = active_alerts'[Len(active_alerts')].id
                /\ notify_log'[k].alert_id \notin StoredIds(active_alerts)]_vars

\* The last call was a create_alert of severity critical that was merged: it
\* returned a record whose count is now above one.
C12_Witness ==
    /\ last_op.op = "create_alert"
    /\ last_op.event.severity = CRITICAL
    /\ last_op.ret \in StoredIds(active_alerts)
    /\ Stored(last_op.ret).count > 1
    /\ notify_log = <<>>

\* C13 (resolution result): a resolve_alert(id, m) that succeeded returned
\* the alert with status resolved, resolved_at set (to the time of the call)
\* and resolution_message equal to m; and in every state an alert whose status
\* is active has neither a resolved_at nor a resolution_message.
C13_ResolutionResult ==
    /\ (last_op.op = "resolve_alert" /\ last_op.error = "none") =>
          /\ last_op.ret = last_op.alert_id
          /\ last_op.ret \in StoredIds(active_alerts)
          /\ Stored(last_op.ret).status = "resolved"
          /\ "resolved_at" \in DOMAIN Stored(last_op.ret)
          /\ Stored(last_op.ret).resolved_at = UtcNowIso(now)
          /\ "resolution_message" \in DOMAIN Stored(last_op.ret)
          /\ Stored(last_op.ret).resolution_message = last_op.resolution_message
    /\ \A i \in 1..Len(active_alerts) :
          active_alerts[i].status = "active" =>
             /\ "resolved_at" \notin DOMAIN active_alerts[i]
             /\ "resolution_message" \notin DOMAIN active_alerts[i]

\* The last call resolved an alert with a message, some time after the alert
\* was created, while another alert of the store is active.
C13_Witness ==
    /\ last_op.op = "resolve_alert"
    /\ last_op.error = "none"
    /\ last_op.resolution_message = "rolled back deploy"
    /\ Stored(last_op.ret).resolved_at > Stored(last_op.ret).created_at
    /\ \E i \in 1..Len(active_alerts) : active_alerts[i].status = "active"

\* The stored alerts that get_active_alerts is to return for the filter f when
\* a filter counts as supplied under the test given: the active ones that
\* match every supplied filter.
Expected(f, env_given, sev_given, src_given) ==
    {active_alerts[i].id : i \in
        {j \in 1..Len(active_alerts) :
            /\ active_alerts[j].status = "active"
            /\ env_given => active_alerts[j].environment = f.environment
            /\ sev_given => active_alerts[j].severity = f.severity
            /\ src_given => active_alerts[j].source = f.source}}

\* The result holds each id once, in store order, and none of a resolved alert.
WellFormedResult(result) ==
    /\ \A k, m \in 1..Len(result) :
          k < m => IndexOf(active_alerts, result[k]) < IndexOf(active_alerts, result[m])
    /\ \A k \in 1..Len(result) : Stored(result[k]).status # "resolved"

\* C14 as stated (active-alert filtering): get_active_alerts returns exactly
\* the stored alerts that are active and match every filter that was passed
\* (every argument that is not None), and never a resolved one.
C14_FilterExactlySupplied ==
    \A f \in Filters :
        LET result == GetActive(active_alerts, f.environment, f.severity, f.source)
        IN  /\ WellFormedResult(result)
            /\ Range(result) = Expected(f, f.environment # "None",
                                        f.severity # "None", f.source # "None")

\* C14 as the code has it: get_active_alerts returns exactly the stored alerts
\* that are active and match every filter that is neither None nor the empty
\* string, and never a resolved one; an empty filter is not applied.
C14_FilterExactlyNonEmpty ==
    \A f \in Filters :
        LET result == GetActive(active_alerts, f.environment, f.severity, f.source)
        IN  /\ WellFormedResult(result)
            /\ Range(result) = Expected(f, f.environment \notin {"None", ""},
                                        f.severity \notin {"None", ""},
                                        f.source \notin {"None", ""})

\* A filter on all three fields returns an active alert and leaves out a
\* resolved alert with the same three fields.
C14_Witness ==
    \E f \in Filters :
        /\ Truthy(f.environment) /\ Truthy(f.severity) /\ Truthy(f.source)
        /\ GetActive(active_alerts, f.environment, f.severity, f.source) # <<>>
        /\ \E i \in 1..Len(active_alerts) :
              /\ active_alerts[i].status = "resolved"
              /\ active_alerts[i].environment = f.environment
              /\ active_alerts[i].severity = f.severity
              /\ active_alerts[i].source = f.source

\* C15 (no auto-resolution): an active alert stays active through every step
\* that is not a resolve_alert call on its id: clock ticks, also beyond
\* auto_resolve_time, create_alert calls and the reads leave its status alone.
C15_NoAutoResolution ==
    [][\A i \in 1..Len(active_alerts) :
          (/\ active_alerts[i].status = "active"
           /\ ~(/\ calls' # calls
                 /\ last_op'.op = "resolve_alert"
                 /\ last_op'.alert_id = active_alerts[i].id))
          => (/\ i <= Len(active_alerts')
              /\ active_alerts'[i].id = active_alerts[i].id
              /\ active_alerts'[i].status = "active")]_vars

\* An alert is still active more than auto_resolve_time after its creation,
\* and create_alert was called since.
C15_Witness ==
    /\ last_op.op = "create_alert"
    /\ \E i \in 1..Len(active_alerts) :
          /\ active_alerts[i].status = "active"
          /\ RealAge(active_alerts[i], now) > AutoResolveTime

\* The call that a step made: a create_alert or resolve_alert call was run in
\* this step and returned without an error.
SucceededNow(op) ==
    calls' # calls /\ last_op'.op = op /\ last_op'.error = "none"

\* C16 (history immutability): the entries of the history are never removed
\* or reordered, and an entry reads after every step as it read before it:
\* merges and resolutions of its alert do not show in it.
C16_HistoryImmutable ==
    [][\A i \in 1..Len(alert_history) :
          /\ i <= Len(alert_history')
          /\ alert_history'[i] = alert_history[i]
          /\ HistoryEntry(alert_history', active_alerts', i)
                = HistoryEntry(alert_history, active_alerts, i)]_vars

\* C17 (history on every write): every create_alert that inserted or merged
\* and every resolve_alert that succeeded appended one entry to the history,
\* and no other step changed the history.
C17_HistoryOnEveryWrite ==
    [][IF SucceededNow("create_alert") \/ SucceededNow("resolve_alert")
       THEN alert_history' # alert_history
            /\ Len(alert_history') = Len(alert_history) + 1
            /\ SubSeq(alert_history', 1, Len(alert_history)) = alert_history
       ELSE alert_history' = alert_history]_vars

\* C18 (updated_at advances on every mutation): after a merge and after a
\* successful resolve_alert the record's updated_at is the time of that call.
C18_UpdatedAtAdvances ==
    [][(SucceededNow("create_alert") \/ SucceededNow("resolve_alert"))
       => LET alert == active_alerts'[IndexOf(active_alerts', last_op'.ret)]
          IN  alert.updated_at >= UtcNowIso(now)]_vars

\* C19 (resolved alerts absorb no duplicates): a create_alert leaves every
\* resolved record as it was, count included; and when the stored alerts of
\* its signature are all resolved, however recently they were created, it
\* inserts a new active record with a new id and count 1 and returns it.
C19_ResolvedAbsorbsNothing ==
    [][(calls' # calls /\ last_op'.op = "create_alert") =>
        /\ \A i \in 1..Len(active_alerts) :
              active_alerts[i].status = "resolved"
                 => active_alerts'[i] = active_alerts[i]
        /\ (/\ Matching(last_op'.event) # {}
             /\ \A i \in Matching(last_op'.event) :
                   active_alerts[i].status = "resolved")
            => (/\ Len(active_alerts') = Len(active_alerts) + 1
                /\ LET new == active_alerts'[Len(active_alerts')]
                   IN  /\ new.id \notin StoredIds(active_alerts)
                       /\ new.id = last_op'.ret
                       /\ new.status = "active"
                       /\ new.count = 1
                       /\ SignatureOf(new) = SignatureOf(last_op'.event))]_vars

\* On a host on UTC the last call, a create_alert, inserted a record while a
\* resolved record of its signature was still within the deduplication window.
C19_Witness ==
    /\ utc_offset = 0
    /\ last_op.op = "create_alert"
    /\ last_op.ret \in StoredIds(active_alerts)
    /\ Stored(last_op.ret).count = 1
    /\ \E i \in Matching(last_op.event) :
          /\ active_alerts[i].id # last_op.ret
          /\ active_alerts[i].status = "resolved"
          /\ RealAge(active_alerts[i], now) <= DedupWindow

\* C20 (merge frame): a create_alert that is merged changes count and
\* updated_at of the record it returns and nothing else: every other key of
\* that record, every other record and the history stay as they were, and the
\* message, details and related_entities of the call are written into no
\* record.
C20_MergeFrame ==
    [][(/\ SucceededNow("create_alert")
        /\ last_op'.ret \in StoredIds(active_alerts))
       => (/\ Len(active_alerts') = Len(active_alerts)
           /\ alert_history' = alert_history
           /\ \A j \in 1..Len(active_alerts) :
                 LET old == active_alerts[j]
                     new == active_alerts'[j]
                 IN  /\ DOMAIN new = DOMAIN old
                     /\ \A k \in DOMAIN old \ {"count", "updated_at"} :
                           new[k] = old[k]
                     /\ old.id # last_op'.ret => new = old
                     /\ new.message = last_op'.event.message
                           => old.message = last_op'.event.message
                     /\ new.details = last_op'.event.details
                           => old.details = last_op'.event.details
                     /\ new.related_entities = last_op'.event.related_entities
                           => old.related_entities
                                = last_op'.event.related_entities)]_vars

\* On a host on UTC the last call, a create_alert, was merged into a record
\* whose message, details and related_entities all differ from the ones the
\* call passed.
C20_Witness ==
    /\ last_op.op = "create_alert"
    /\ last_op.error = "none"
    /\ last_op.ret \in StoredIds(active_alerts)
    /\ Stored(last_op.ret).count > 1
    /\ Stored(last_op.ret).message # last_op.event.message
    /\ Stored(last_op.ret).details # last_op.event.details
    /\ Stored(last_op.ret).related_entities # last_op.event.related_entities
    /\ utc_offset = 0

\* C21 (occurrence count): with calls run one at a time every stored alert
\* has a count of at least 1; a record is inserted with count 1, each
\* create_alert that is merged into it raises its count by exactly one, and no
\* other step changes it, so the count never decreases and is 1 plus the
\* number of merges into the record.
C21_OccurrenceCount ==
    [][/\ \A i \in 1..Len(active_alerts') :
             /\ "count" \in DOMAIN active_alerts'[i]
             /\ active_alerts'[i].count >= 1
       /\ \A i \in 1..Len(active_alerts) :
             /\ i <= Len(active_alerts')
             /\ active_alerts'[i].id = active_alerts[i].id
             /\ active_alerts'[i].count =
                   IF /\ SucceededNow("create_alert")
                      /\ last_op'.ret = active_alerts[i].id
                   THEN active_alerts[i].count + 1
                   ELSE active_alerts[i].count
       /\ \A i \in (Len(active_alerts) + 1)..Len(active_alerts') :
             active_alerts'[i].count = 1]_vars

\* Three create_alert calls of one signature: the last call was merged into a
\* record that had been merged into before.
C21_Witness ==
    /\ last_op.op = "create_alert"
    /\ last_op.error = "none"
    /\ last_op.ret \in StoredIds(active_alerts)
    /\ Stored(last_op.ret).count = 3

\* C22 (duplicate test against a reference): on a host of any UTC offset,
\* _check_for_duplicate returns a stored alert for a candidate exactly when
\* some stored alert is active, has the candidate's four signature fields and
\* was really created no more than the deduplication window ago; and the
\* alert it returns is such an alert.
C22_DuplicateTestMatchesReference ==
    \A ev \in Events :
        LET candidate == NewAlert(Uuid4(IdsInUse), ev, now)
            found == CheckForDuplicate(active_alerts, candidate, now)
            reference == {i \in Matching(ev) : FreshActive(active_alerts[i], now)}
        IN  /\ found # NoneId <=> reference # {}
            /\ found # NoneId =>
                  \E i \in reference : active_alerts[i].id = found

\* C23 (no lost increments under concurrency): whatever the interleaving of
\* the threads' steps, no step lowers a record's count, and each create_alert
\* that completes a merge leaves the count of its record one above what it
\* was before the write, so the final count is the initial one plus the number
\* of merged calls.
C23_NoLostIncrement ==
    [][/\ \A i \in 1..Len(active_alerts) :
             /\ i <= Len(active_alerts')
             /\ active_alerts'[i].count >= active_alerts[i].count
       /\ \A t \in Threads :
             (pc[t] = "update" /\ pc'[t] = "idle") =>
                LET i == IndexOf(active_alerts, frame[t].duplicate_id)
                IN  active_alerts'[i].count = active_alerts[i].count + 1]_vars

\* C24 (a resolved record is frozen under concurrency): whatever the
\* interleaving of a create_alert with a resolve_alert on the alert it
\* matches, no step changes the count or the updated_at of a record whose
\* status is resolved.
C24_ResolvedFrozen ==
    [][\A i \in 1..Len(active_alerts) :
          active_alerts[i].status = "resolved" =>
             /\ i <= Len(active_alerts')
             /\ active_alerts'[i].count = active_alerts[i].count
             /\ active_alerts'[i].updated_at = active_alerts[i].updated_at]_vars

====
